---- MODULE Spec2Model ----
(***************************************************************************)
(* Booking / availability consistency core of the parking marketplace      *)
(* backend: the bookings, parking_spots and spot_availability tables and    *)
(* the request handlers that read and write them.                           *)
(*                                                                         *)
(* Time is counted in whole ticks of the DATETIME columns; every tick of   *)
(* Times lies in the future of the server clock.                           *)
(*                                                                         *)
(*   Spec      the booking handlers, each request handled as one step      *)
(*   SpecLife  the life of one booking, with the request arguments kept    *)
(*   SpecGate  the spot and availability handlers next to createBooking    *)
(*   SpecPay   SpecLife with the payment gateway requests                  *)
(*   SpecLedger the availability handlers, each request handled as one step*)
(*   SpecRace  Booking.create split into its three store round-trips:      *)
(*             the handler awaits each query on a connection pool and      *)
(*             opens no transaction                                        *)
(*   SpecLedgerRace  the declare and update handlers of the availability   *)
(*             slots, one store round-trip at a time                       *)
(*   SpecQuery the declare and remove handlers and the query of slots      *)
(*   SpecBookLedger  the booking handlers next to the availability ones    *)
(*   SpecReview      createReview, one store round-trip at a time          *)
(*   SpecStatusRace  updateBookingStatus, one store round-trip at a time   *)
(***************************************************************************)
EXTENDS Integers, Sequences, FiniteSets, TLC

VARIABLES
  spots,      \* parking_spots: spot_id -> row (exists = FALSE: no such row)
  slots,      \* spot_availability: rows in insertion order
  bookings,   \* bookings: rows in insertion order, booking_id = index
  reviews,    \* reviews: rows in insertion order
  notifications, \* notifications: rows in insertion order
  reqs,       \* requests in flight, between two store round-trips
  last,       \* the handler and status code of the last answered request
  audit,      \* the arguments of the last request (SpecLife)
  nreq        \* requests handled so far

vars == <<spots, slots, bookings, reviews, notifications, reqs, last, audit,
          nreq>>

(* ---------------------------- bounds ----------------------------------- *)

\* the ticks 0..MaxTime: ranges that overlap, touch and lie apart
MaxTime == 2
\* rows of the bookings table
MaxBookings == 2
\* rows of the spot_availability table
MaxSlots == 2
\* createBooking requests in flight at once (SpecRace)
MaxInFlight == 2
\* requests handled in one run of Spec and of SpecGate
MaxRequests == 3

(* --------------------------- value sets -------------------------------- *)

NULL == "NULL"
NOW == "NOW"
undefined == "undefined"

Drivers == {"d1", "d2"}
Homeowners == {"h1", "h2"}
Admins == {"a1"}
Users == Drivers \cup Homeowners \cup Admins

user_type(u) ==
  IF u \in Drivers THEN "driver"
  ELSE IF u \in Homeowners THEN "homeowner"
  ELSE "admin"

SpotIds == {1, 2, 3}
Times == 0..MaxTime

\* The statuses updateBookingStatusSchema lets through.  The controller and
\* the model write rejected, homeowner_confirm_time and
\* homeowner_reject_time, which the table of the schema file does not
\* list: the table is taken to have the columns and values the code writes.
BookingStatuses ==
  {"pending", "confirmed", "rejected", "cancelled_by_driver",
   "cancelled_by_homeowner", "checked_in", "checked_out", "completed"}

PaymentStatuses == {"pending", "paid", "refunded", "failed"}

SpotStatuses == {"active", "inactive", "pending_verification", "rejected"}

IntentIds == {"pi_1"}

BookingIds == 1..Len(bookings)

Response(op, code) == [op |-> op, code |-> code]

NoRequest == Response("none", 0)

Audit(user, id, arg, from) ==
  [user |-> user, id |-> id, arg |-> arg, from |-> from]

NoAudit == Audit(NULL, 0, NULL, NULL)

(* middleware/auth.js authorize(roles): TRUE when the request goes on. *)
authorize(roles, u) == user_type(u) \in roles

(* ------------------------ models/notification.js ----------------------- *)

(* Notification.create: INSERT INTO notifications.  No handler of the
   booking, payment or transaction controllers calls it. *)
Notification_create(ntfs, userId, relatedEntityType, relatedEntityId) ==
  Append(ntfs, [user_id |-> userId,
                related_entity_type |-> relatedEntityType,
                related_entity_id |-> relatedEntityId,
                is_read |-> FALSE])

(* ------------------------- models/booking.js --------------------------- *)

(* SELECT homeowner_id FROM parking_spots WHERE spot_id = ? *)
SpotRows(sps, spot_id) ==
  IF spot_id \in DOMAIN sps /\ sps[spot_id].exists THEN {sps[spot_id]} ELSE {}

(* The statuses the overlap query of Booking.create leaves out. *)
NonBlockingStatuses ==
  {"rejected", "cancelled_by_driver", "cancelled_by_homeowner", "completed"}

(* The three range comparisons of the overlap query, on one stored row. *)
RangeClause_Closed(b, start_time, end_time) ==
  \/ (b.start_time <= end_time /\ b.end_time >= start_time)
  \/ (b.start_time < start_time /\ b.end_time > end_time)
  \/ (b.start_time >= start_time /\ b.end_time <= end_time)

RangeClause_NoFirst(b, start_time, end_time) ==
  \/ (b.start_time < start_time /\ b.end_time > end_time)
  \/ (b.start_time >= start_time /\ b.end_time <= end_time)

RangeClause(b, start_time, end_time) ==
  \/ (b.start_time < end_time /\ b.end_time > start_time)
  \/ (b.start_time < start_time /\ b.end_time > end_time)
  \/ (b.start_time >= start_time /\ b.end_time <= end_time)

(* The booking_ids the overlap query returns. *)
overlapCheck(bks, spot_id, start_time, end_time) ==
  {i \in 1..Len(bks) :
     /\ bks[i].spot_id = spot_id
     /\ RangeClause(bks[i], start_time, end_time)
     /\ bks[i].booking_status \notin NonBlockingStatuses}

(* The row the INSERT of Booking.create writes. *)
NewBookingRow_CallerAsOwner(data, homeowner_id) ==
  [spot_id |-> data.spot_id,
   driver_id |-> data.driver_id,
   homeowner_id |-> data.driver_id,
   start_time |-> data.start_time,
   end_time |-> data.end_time,
   booking_status |-> "pending",
   payment_status |-> "pending",
   stripe_payment_intent_id |-> data.stripe_payment_intent_id,
   driver_check_in_time |-> NULL,
   driver_check_out_time |-> NULL,
   homeowner_confirm_time |-> NULL,
   homeowner_reject_time |-> NULL]

NewBookingRow(data, homeowner_id) ==
  [spot_id |-> data.spot_id,
   driver_id |-> data.driver_id,
   homeowner_id |-> homeowner_id,
   start_time |-> data.start_time,
   end_time |-> data.end_time,
   booking_status |-> "pending",
   payment_status |-> "pending",
   stripe_payment_intent_id |-> data.stripe_payment_intent_id,
   driver_check_in_time |-> NULL,
   driver_check_out_time |-> NULL,
   homeowner_confirm_time |-> NULL,
   homeowner_reject_time |-> NULL]

BookingsTableAccepts_NoTimeCheck(sps, row) ==
  SpotRows(sps, row.spot_id) # {}

(* What the bookings table asks of an inserted row: CHECK (end_time >
   start_time) and the foreign key on spot_id. *)
BookingsTableAccepts(sps, row) ==
  /\ row.end_time > row.start_time
  /\ SpotRows(sps, row.spot_id) # {}

(* The INSERT of Booking.create: the status code and the table afterwards. *)
InsertBooking(sps, bks, row) ==
  IF BookingsTableAccepts(sps, row)
    THEN [code |-> 201, rows |-> Append(bks, row)]
    ELSE [code |-> 500, rows |-> bks]

(* Booking.create run as one unit. *)
Booking_create(sps, bks, data) ==
  IF SpotRows(sps, data.spot_id) = {} THEN [code |-> 404, rows |-> bks]
  ELSE IF overlapCheck(bks, data.spot_id, data.start_time, data.end_time) # {}
    THEN [code |-> 409, rows |-> bks]
  ELSE InsertBooking(sps, bks,
                     NewBookingRow(data, sps[data.spot_id].homeowner_id))

Booking_updateStatus_StampCheckIn(bks, bookingId, newStatus, timeFieldToUpdate) ==
  IF bookingId \notin 1..Len(bks) THEN bks
  ELSE IF timeFieldToUpdate = NULL
    THEN [bks EXCEPT ![bookingId].booking_status = newStatus]
    ELSE [bks EXCEPT ![bookingId] =
            [[[@ EXCEPT !.booking_status = newStatus]
                EXCEPT ![timeFieldToUpdate] = NOW]
                EXCEPT !.driver_check_in_time = NOW]]

(* Booking.updateStatus:
   UPDATE bookings SET booking_status = ?[, <field> = NOW()] WHERE booking_id = ? *)
Booking_updateStatus(bks, bookingId, newStatus, timeFieldToUpdate) ==
  IF bookingId \notin 1..Len(bks) THEN bks
  ELSE IF timeFieldToUpdate = NULL
    THEN [bks EXCEPT ![bookingId].booking_status = newStatus]
    ELSE [bks EXCEPT ![bookingId] =
            [[@ EXCEPT !.booking_status = newStatus]
               EXCEPT ![timeFieldToUpdate] = NOW]]

Booking_updatePaymentStatus_AutoConfirm(bks, bookingId, payment_status, intent) ==
  IF bookingId \notin 1..Len(bks) THEN bks
  ELSE [bks EXCEPT ![bookingId] =
          [[[@ EXCEPT !.payment_status = payment_status]
               EXCEPT !.booking_status =
                  IF @ = "pending" /\ payment_status = "paid"
                    THEN "confirmed" ELSE @]
               EXCEPT !.stripe_payment_intent_id =
                  IF intent = undefined THEN @ ELSE intent]]

Booking_updatePaymentStatus_Toggle(bks, bookingId, payment_status, intent) ==
  IF bookingId \notin 1..Len(bks) THEN bks
  ELSE [bks EXCEPT ![bookingId].payment_status =
          IF @ = payment_status THEN "refunded" ELSE payment_status]

(* Booking.updatePaymentStatus with the object the booking controller
   builds: payment_status, and stripe_payment_intent_id unless undefined. *)
Booking_updatePaymentStatus(bks, bookingId, payment_status, intent) ==
  IF bookingId \notin 1..Len(bks) THEN bks
  ELSE IF intent = undefined
    THEN [bks EXCEPT ![bookingId].payment_status = payment_status]
    ELSE [bks EXCEPT ![bookingId] =
            [[@ EXCEPT !.payment_status = payment_status]
               EXCEPT !.stripe_payment_intent_id = intent]]

(* ----------------------- controllers/booking.js ------------------------ *)

BookingData(u, spotId, startTime, endTime, intent) ==
  [spot_id |-> spotId, driver_id |-> u,
   start_time |-> startTime, end_time |-> endTime,
   stripe_payment_intent_id |-> intent]

createBooking_MarkAsBooked(u, spotId, startTime, endTime, intent) ==
  /\ LET r == IF ~authorize({"driver"}, u)
                THEN [code |-> 403, rows |-> bookings]
                ELSE Booking_create(spots, bookings,
                       BookingData(u, spotId, startTime, endTime, intent))
     IN /\ bookings' = r.rows
        /\ last' = Response("createBooking", r.code)
        /\ slots' = IF r.code # 201 THEN slots
                    ELSE [i \in 1..Len(slots) |->
                            IF /\ slots[i].spot_id = spotId
                               /\ slots[i].start_time <= startTime
                               /\ slots[i].end_time >= endTime
                              THEN [slots[i] EXCEPT !.is_booked = TRUE]
                              ELSE slots[i]]
  /\ UNCHANGED <<spots, reqs, reviews, notifications>>

(* POST /api/bookings: protect, authorize("driver"), createBooking *)
createBooking(u, spotId, startTime, endTime, intent) ==
  /\ LET r == IF ~authorize({"driver"}, u)
                THEN [code |-> 403, rows |-> bookings]
                ELSE Booking_create(spots, bookings,
                       BookingData(u, spotId, startTime, endTime, intent))
     IN /\ bookings' = r.rows
        /\ last' = Response("createBooking", r.code)
  /\ UNCHANGED <<spots, slots, reqs, reviews, notifications>>

(* The statuses each case of the switch answers 400 for, or the ones it
   asks for. *)
ConfirmableFrom_Any == BookingStatuses

ConfirmableFrom == {"pending"}

RejectableFrom == {"pending"}

DriverCancelBlocked ==
  {"completed", "checked_out", "rejected", "cancelled_by_homeowner"}

HomeownerCancelBlocked ==
  {"completed", "checked_out", "rejected", "cancelled_by_driver"}

CheckInFrom_WithCheckedIn == {"confirmed", "pending", "checked_in"}

CheckInFrom == {"confirmed", "pending"}

CheckOutFrom_Any == BookingStatuses

CheckOutFrom == {"checked_in"}

HomeownerCompleteFrom_WithCheckedIn == {"checked_out", "checked_in"}

HomeownerCompleteFrom == {"checked_out"}

(* The authorization flags of updateBookingStatus. *)
isDriver_AnyDriver(booking, userId, userType) == userType = "driver"

isDriver(booking, userId, userType) ==
  booking.driver_id = userId /\ userType = "driver"

isHomeowner(booking, userId, userType) ==
  booking.homeowner_id = userId /\ userType = "homeowner"

isAdmin(userType) == userType = "admin"

(* The switch of updateBookingStatus: the status code it answers before any
   write, or 200 with the timestamp column to set. *)
TransitionDecision(booking, userId, userType, status) ==
  LET cur == booking.booking_status
      deny(c) == [code |-> c, timeField |-> NULL]
      allow(f) == [code |-> 200, timeField |-> f]
  IN CASE status = "confirmed" ->
            IF ~isHomeowner(booking, userId, userType) /\ ~isAdmin(userType) THEN deny(403)
            ELSE IF cur \notin ConfirmableFrom THEN deny(400)
            ELSE allow("homeowner_confirm_time")
       [] status = "rejected" ->
            IF ~isHomeowner(booking, userId, userType) /\ ~isAdmin(userType) THEN deny(403)
            ELSE IF cur \notin RejectableFrom THEN deny(400)
            ELSE allow("homeowner_reject_time")
       [] status = "cancelled_by_driver" ->
            IF ~isDriver(booking, userId, userType) /\ ~isAdmin(userType) THEN deny(403)
            ELSE IF cur \in DriverCancelBlocked THEN deny(400)
            ELSE allow(NULL)
       [] status = "cancelled_by_homeowner" ->
            IF ~isHomeowner(booking, userId, userType) /\ ~isAdmin(userType) THEN deny(403)
            ELSE IF cur \in HomeownerCancelBlocked THEN deny(400)
            ELSE allow(NULL)
       [] status = "checked_in" ->
            IF ~isDriver(booking, userId, userType) /\ ~isAdmin(userType) THEN deny(403)
            ELSE IF cur \notin CheckInFrom THEN deny(400)
            ELSE allow("driver_check_in_time")
       [] status = "checked_out" ->
            IF ~isDriver(booking, userId, userType) /\ ~isAdmin(userType) THEN deny(403)
            ELSE IF cur \notin CheckOutFrom THEN deny(400)
            ELSE allow("driver_check_out_time")
       [] status = "completed" ->
            IF ~isHomeowner(booking, userId, userType) /\ ~isAdmin(userType) THEN deny(403)
            ELSE IF userType # "admin" /\ cur \notin HomeownerCompleteFrom
              THEN deny(400)
            ELSE allow(NULL)
       [] OTHER -> deny(400)

(* PATCH /api/bookings/:id/status: protect, updateBookingStatus *)
updateBookingStatus(u, id, status) ==
  /\ IF id \notin BookingIds
       THEN /\ last' = Response("updateBookingStatus", 404)
            /\ UNCHANGED bookings
       ELSE LET d == TransitionDecision(bookings[id], u, user_type(u), status)
            IN /\ bookings' = IF d.code = 200
                                THEN Booking_updateStatus(bookings, id, status,
                                                          d.timeField)
                                ELSE bookings
               /\ last' = Response("updateBookingStatus", d.code)
  /\ UNCHANGED <<spots, slots, reqs, reviews, notifications>>

(* The answer of updatePaymentStatus and the bookings table after it. *)
updatePaymentStatusResult(bks, u, id, paymentStatus, intent) ==
  IF id \notin 1..Len(bks) THEN [code |-> 404, rows |-> bks]
  ELSE IF bks[id].homeowner_id # u /\ user_type(u) # "admin"
    THEN [code |-> 403, rows |-> bks]
  ELSE [code |-> 200,
        rows |-> Booking_updatePaymentStatus(bks, id, paymentStatus, intent)]

(* PATCH /api/bookings/:id/payment-status: protect, updatePaymentStatus *)
updatePaymentStatus(u, id, paymentStatus, intent) ==
  /\ LET r == updatePaymentStatusResult(bookings, u, id, paymentStatus, intent)
     IN /\ bookings' = r.rows
        /\ last' = Response("updatePaymentStatus", r.code)
  /\ UNCHANGED <<spots, slots, reqs, reviews, notifications>>

(* ---------------------- controllers/paymentController.js --------------- *)

(* What stripe.paymentIntents.retrieve can come back with: the status of
   the intent, or an error thrown for an intent the gateway does not know. *)
GatewayOutcomes == {"succeeded", "requires_payment_method", "throws"}

(* The answer of processStripePayment and the bookings table after it.  The
   UPDATE matches no row for a booking that does not exist. *)
processStripePaymentResult(bks, u, bookingId, paymentIntentId, paymentStatus, gateway) ==
  IF ~authorize({"driver"}, u) THEN [code |-> 403, rows |-> bks]
  ELSE IF gateway = "throws" THEN [code |-> 500, rows |-> bks]
  ELSE IF gateway # "succeeded" THEN [code |-> 400, rows |-> bks]
  ELSE IF bookingId \notin 1..Len(bks) THEN [code |-> 400, rows |-> bks]
  ELSE [code |-> 200,
        rows |-> Booking_updatePaymentStatus(bks, bookingId, paymentStatus,
                                             paymentIntentId)]

(* POST /api/payments/process-stripe-payment: protect, authorize("driver"),
   processStripePayment *)
processStripePayment(u, bookingId, paymentIntentId, paymentStatus, gateway) ==
  /\ LET r == processStripePaymentResult(bookings, u, bookingId,
                                         paymentIntentId, paymentStatus,
                                         gateway)
     IN /\ bookings' = r.rows
        /\ last' = Response("processStripePayment", r.code)
  /\ UNCHANGED <<spots, slots, reqs, reviews, notifications>>

(* --------------------- controllers/transaction.js ---------------------- *)

(* The methods the Transaction model object defines. *)
TransactionMethods ==
  {"createTransaction", "findById", "findByGatewayReferenceId",
   "updateStatus", "findByBookingId", "findByUserId"}

(* POST /api/transactions: protect, authorize("admin"), createTransaction.
   The handler calls Transaction.create, which the model object does not
   define: the call throws inside the try block and the handler answers 500
   before it reaches its booking updates (lines 97-115). *)
createTransaction(u, bookingId, type, status) ==
  /\ last' = Response("createTransaction",
       IF ~authorize({"admin"}, u) THEN 403
       ELSE IF type = "booking_payment" /\ bookingId # 0
               /\ bookingId \notin BookingIds THEN 404
       ELSE IF "create" \notin TransactionMethods THEN 500
       ELSE 201)
  /\ UNCHANGED <<spots, slots, bookings, reqs, reviews, notifications>>

(* ------------------- controllers/parkingSpotController.js -------------- *)

(* PUT /api/parking-spots/:id: protect, authorizeHomeowner,
   updateParkingSpot.  fields is the set of keys the body carries, of
   status and isAvailable; the schema wants at least one. *)
updateParkingSpot(u, id, fields, status, isAvailable) ==
  /\ IF ~authorize({"homeowner"}, u)
       THEN /\ last' = Response("updateParkingSpot", 403)
            /\ UNCHANGED spots
       ELSE IF fields = {}
         THEN /\ last' = Response("updateParkingSpot", 400)
              /\ UNCHANGED spots
       ELSE IF SpotRows(spots, id) = {}
         THEN /\ last' = Response("updateParkingSpot", 404)
              /\ UNCHANGED spots
       ELSE IF u # spots[id].homeowner_id /\ user_type(u) # "admin"
         THEN /\ last' = Response("updateParkingSpot", 403)
              /\ UNCHANGED spots
       ELSE /\ spots' = [spots EXCEPT ![id] =
                           [[@ EXCEPT !.status =
                                 IF "status" \in fields THEN status ELSE @]
                               EXCEPT !.is_available =
                                 IF "isAvailable" \in fields THEN isAvailable
                                 ELSE @]]
            /\ last' = Response("updateParkingSpot", 200)
  /\ UNCHANGED <<slots, bookings, reqs, reviews, notifications>>

(* PATCH /api/parking-spots/:id/toggle-availability *)
toggleParkingSpotAvailability(u, id) ==
  /\ IF ~authorize({"homeowner"}, u)
       THEN /\ last' = Response("toggleParkingSpotAvailability", 403)
            /\ UNCHANGED spots
       ELSE IF SpotRows(spots, id) = {}
         THEN /\ last' = Response("toggleParkingSpotAvailability", 404)
              /\ UNCHANGED spots
       ELSE IF u # spots[id].homeowner_id /\ user_type(u) # "admin"
         THEN /\ last' = Response("toggleParkingSpotAvailability", 403)
              /\ UNCHANGED spots
       ELSE /\ spots' = [spots EXCEPT ![id].is_available = ~@]
            /\ last' = Response("toggleParkingSpotAvailability", 200)
  /\ UNCHANGED <<slots, bookings, reqs, reviews, notifications>>

NoSpot ==
  [exists |-> FALSE, homeowner_id |-> NULL, status |-> NULL,
   is_available |-> FALSE]

(* DELETE /api/parking-spots/:id.  The bookings of the spot restrict the
   DELETE (the query throws: 500); its availability rows go with it. *)
deleteParkingSpot(u, id) ==
  /\ IF ~authorize({"homeowner"}, u)
       THEN /\ last' = Response("deleteParkingSpot", 403)
            /\ UNCHANGED <<spots, slots>>
       ELSE IF SpotRows(spots, id) = {}
         THEN /\ last' = Response("deleteParkingSpot", 404)
              /\ UNCHANGED <<spots, slots>>
       ELSE IF u # spots[id].homeowner_id /\ user_type(u) # "admin"
         THEN /\ last' = Response("deleteParkingSpot", 403)
              /\ UNCHANGED <<spots, slots>>
       ELSE IF \E i \in BookingIds : bookings[i].spot_id = id
         THEN /\ last' = Response("deleteParkingSpot", 500)
              /\ UNCHANGED <<spots, slots>>
       ELSE /\ spots' = [spots EXCEPT ![id] = NoSpot]
            /\ slots' = SelectSeq(slots, LAMBDA a : a.spot_id # id)
            /\ last' = Response("deleteParkingSpot", 200)
  /\ UNCHANGED <<bookings, reqs, reviews, notifications>>

(* ---------------------- models/spotAvailability.js --------------------- *)

(* The availability_id the table gives the next inserted row. *)
NextAvailabilityId(avs) ==
  IF Len(avs) = 0 THEN 1
  ELSE 1 + CHOOSE m \in {avs[i].availability_id : i \in 1..Len(avs)} :
             \A i \in 1..Len(avs) : avs[i].availability_id <= m

(* SpotAvailability.findById: the indexes of the rows with the id. *)
SpotAvailability_findById(avs, availabilityId) ==
  {i \in 1..Len(avs) : avs[i].availability_id = availabilityId}

(* SpotAvailability.findBySpotId: the rows the SELECT matches.  bounds is
   the set of the filters given, of start and end. *)
findBySpotId(avs, spotId, bounds, start, end) ==
  {i \in 1..Len(avs) :
     /\ avs[i].spot_id = spotId
     /\ "start" \in bounds => avs[i].start_time >= start
     /\ "end" \in bounds => avs[i].end_time <= end}

(* ORDER BY start_time ASC: the orders the store may return the matched rows
   in; rows with the same start_time come in either order. *)
OrderByStartTime(avs, matched) ==
  LET n == Cardinality(matched)
  IN {[k \in 1..n |-> avs[f[k]]] :
        f \in {g \in [1..n -> matched] :
                 /\ \A a \in 1..n, b \in 1..n : a # b => g[a] # g[b]
                 /\ \A a \in 1..n, b \in 1..n :
                      a < b => avs[g[a]].start_time <= avs[g[b]].start_time}}

(* SpotAvailability.isTimeRangeAvailable: no unbooked slot of the spot,
   other than the excluded one (0: none excluded), matches one of the three
   range comparisons. *)
isTimeRangeAvailable_Closed(avs, spotId, startTime, endTime, excludeAvailabilityId) ==
  ~ \E i \in 1..Len(avs) :
       /\ avs[i].spot_id = spotId
       /\ avs[i].start_time <= endTime /\ avs[i].end_time >= startTime
       /\ avs[i].is_booked = FALSE
       /\ excludeAvailabilityId # 0 =>
            avs[i].availability_id # excludeAvailabilityId

isTimeRangeAvailable(avs, spotId, startTime, endTime, excludeAvailabilityId) ==
  ~ \E i \in 1..Len(avs) :
       /\ avs[i].spot_id = spotId
       /\ \/ (avs[i].start_time < endTime /\ avs[i].end_time > startTime)
          \/ (avs[i].start_time >= startTime /\ avs[i].start_time < endTime)
          \/ (avs[i].end_time > startTime /\ avs[i].end_time <= endTime)
       /\ avs[i].is_booked = FALSE
       /\ excludeAvailabilityId # 0 =>
            avs[i].availability_id # excludeAvailabilityId

(* SpotAvailability.updateAvailability with the fields the body carries. *)
SpotAvailability_updateAvailability(avs, availabilityId, fields, startTime, endTime, isBooked) ==
  [i \in 1..Len(avs) |->
     IF avs[i].availability_id # availabilityId THEN avs[i]
     ELSE [avs[i] EXCEPT
             !.start_time = IF "startTime" \in fields THEN startTime ELSE @,
             !.end_time = IF "endTime" \in fields THEN endTime ELSE @,
             !.is_booked = IF "isBooked" \in fields THEN isBooked ELSE @]]

(* SpotAvailability.deleteAvailability *)
SpotAvailability_deleteAvailability(avs, availabilityId) ==
  SelectSeq(avs, LAMBDA a : a.availability_id # availabilityId)

(* SpotAvailability.checkAvailabilityForBooking: an unbooked slot of the
   spot contains the range.  No handler calls it. *)
checkAvailabilityForBooking(avs, spotId, bookingStartTime, bookingEndTime) ==
  \E i \in 1..Len(avs) :
     /\ avs[i].spot_id = spotId
     /\ avs[i].start_time <= bookingStartTime
     /\ avs[i].end_time >= bookingEndTime
     /\ avs[i].is_booked = FALSE

(* -------------------- controllers/spotAvailability.js ------------------ *)

(* POST /api/spots/:spotId/availability: protect, authorize("homeowner"),
   createSpotAvailability. *)
createSpotAvailability(u, spotId, startTime, endTime) ==
  /\ IF ~authorize({"homeowner"}, u)
       THEN /\ last' = Response("createSpotAvailability", 403)
            /\ UNCHANGED slots
       ELSE IF startTime >= endTime
         THEN /\ last' = Response("createSpotAvailability", 400)
              /\ UNCHANGED slots
       ELSE IF SpotRows(spots, spotId) = {}
         THEN /\ last' = Response("createSpotAvailability", 404)
              /\ UNCHANGED slots
       ELSE IF spots[spotId].homeowner_id # u /\ user_type(u) # "admin"
         THEN /\ last' = Response("createSpotAvailability", 403)
              /\ UNCHANGED slots
       ELSE IF ~isTimeRangeAvailable(slots, spotId, startTime, endTime, 0)
         THEN /\ last' = Response("createSpotAvailability", 409)
              /\ UNCHANGED slots
       ELSE /\ slots' = Append(slots, [availability_id |->
                                          NextAvailabilityId(slots),
                                       spot_id |-> spotId,
                                       start_time |-> startTime,
                                       end_time |-> endTime,
                                       is_booked |-> FALSE])
            /\ last' = Response("createSpotAvailability", 201)
  /\ UNCHANGED <<spots, bookings, reqs, reviews, notifications>>

(* GET /api/spots/:spotId/availability?start=&end=: getSpotAvailability, open
   to everyone.  The rows of the answer are kept in audit. *)
getSpotAvailability(spotId, bounds, start, end) ==
  /\ \E rows \in OrderByStartTime(slots,
                    findBySpotId(slots, spotId, bounds, start, end)) :
       audit' = [user |-> NULL, id |-> spotId,
                 arg |-> [bounds |-> bounds, start |-> start, end |-> end],
                 from |-> rows]
  /\ last' = Response("getSpotAvailability", 200)
  /\ UNCHANGED <<spots, slots, bookings, reqs, reviews, notifications>>

(* PUT /api/spots/availability/:availabilityId: protect,
   authorize("homeowner"), updateSpotAvailability.  fields is the set of
   keys the body carries, of startTime, endTime and isBooked. *)
updateSpotAvailability(u, availabilityId, fields, startTime, endTime, isBooked) ==
  /\ LET found == SpotAvailability_findById(slots, availabilityId)
         availability == slots[CHOOSE i \in found : TRUE]
         newStartTime == IF "startTime" \in fields THEN startTime
                         ELSE availability.start_time
         newEndTime == IF "endTime" \in fields THEN endTime
                       ELSE availability.end_time
         deny(c) == /\ last' = Response("updateSpotAvailability", c)
                    /\ UNCHANGED slots
     IN IF ~authorize({"homeowner"}, u) THEN deny(403)
        ELSE IF fields = {} THEN deny(400)
        ELSE IF {"startTime", "endTime"} \subseteq fields
                /\ startTime >= endTime THEN deny(400)
        ELSE IF found = {} THEN deny(404)
        ELSE IF SpotRows(spots, availability.spot_id) = {}
                \/ (spots[availability.spot_id].homeowner_id # u
                      /\ user_type(u) # "admin") THEN deny(403)
        ELSE IF fields \cap {"startTime", "endTime"} # {}
                /\ newStartTime >= newEndTime THEN deny(400)
        ELSE IF fields \cap {"startTime", "endTime"} # {}
                /\ ~isTimeRangeAvailable(slots, availability.spot_id,
                                         newStartTime, newEndTime,
                                         availabilityId) THEN deny(409)
        ELSE /\ slots' = SpotAvailability_updateAvailability(
                            slots, availabilityId, fields, startTime, endTime,
                            isBooked)
             /\ last' = Response("updateSpotAvailability", 200)
  /\ UNCHANGED <<spots, bookings, reqs, reviews, notifications>>

deleteSpotAvailability_NoBookedTest(u, availabilityId) ==
  /\ LET found == SpotAvailability_findById(slots, availabilityId)
         availability == slots[CHOOSE i \in found : TRUE]
         deny(c) == /\ last' = Response("deleteSpotAvailability", c)
                    /\ UNCHANGED slots
     IN IF ~authorize({"homeowner"}, u) THEN deny(403)
        ELSE IF found = {} THEN deny(404)
        ELSE IF SpotRows(spots, availability.spot_id) = {}
                \/ (spots[availability.spot_id].homeowner_id # u
                      /\ user_type(u) # "admin") THEN deny(403)
        ELSE /\ slots' = SpotAvailability_deleteAvailability(slots,
                                                             availabilityId)
             /\ last' = Response("deleteSpotAvailability", 200)
  /\ UNCHANGED <<spots, bookings, reqs, reviews, notifications>>

(* DELETE /api/spots/availability/:availabilityId: protect,
   authorize("homeowner"), deleteSpotAvailability *)
deleteSpotAvailability(u, availabilityId) ==
  /\ LET found == SpotAvailability_findById(slots, availabilityId)
         availability == slots[CHOOSE i \in found : TRUE]
         deny(c) == /\ last' = Response("deleteSpotAvailability", c)
                    /\ UNCHANGED slots
     IN IF ~authorize({"homeowner"}, u) THEN deny(403)
        ELSE IF found = {} THEN deny(404)
        ELSE IF SpotRows(spots, availability.spot_id) = {}
                \/ (spots[availability.spot_id].homeowner_id # u
                      /\ user_type(u) # "admin") THEN deny(403)
        ELSE IF availability.is_booked THEN deny(400)
        ELSE /\ slots' = SpotAvailability_deleteAvailability(slots,
                                                             availabilityId)
             /\ last' = Response("deleteSpotAvailability", 200)
  /\ UNCHANGED <<spots, bookings, reqs, reviews, notifications>>

(* ------------- Booking.create, one store round-trip at a time ---------- *)

Idle == [pc |-> "idle", data |-> NULL, homeowner_id |-> NULL, code |-> 0]

(* A driver's request enters Booking.create. *)
create_begin(u, spotId, startTime, endTime) ==
  /\ authorize({"driver"}, u)
  /\ \E r \in 1..MaxInFlight :
       /\ reqs[r].pc = "idle"
       /\ \A q \in 1..(r - 1) : reqs[q].pc # "idle"
       /\ reqs' = [reqs EXCEPT ![r] =
                     [pc |-> "spotLookup",
                      data |-> BookingData(u, spotId, startTime, endTime, NULL),
                      homeowner_id |-> NULL, code |-> 0]]
  /\ UNCHANGED <<spots, slots, bookings, last, reviews, notifications>>

(* First round-trip: the spot's homeowner_id, or 404. *)
create_spotLookup(r) ==
  /\ reqs[r].pc = "spotLookup"
  /\ IF SpotRows(spots, reqs[r].data.spot_id) = {}
       THEN /\ reqs' = [reqs EXCEPT ![r].pc = "done", ![r].code = 404]
            /\ last' = Response("createBooking", 404)
       ELSE /\ reqs' = [reqs EXCEPT ![r].pc = "overlapCheck",
                                    ![r].homeowner_id =
                                       spots[reqs[r].data.spot_id].homeowner_id]
            /\ UNCHANGED last
  /\ UNCHANGED <<spots, slots, bookings, reviews, notifications>>

(* Second round-trip: the overlap query, or 409. *)
create_overlapCheck(r) ==
  /\ reqs[r].pc = "overlapCheck"
  /\ IF overlapCheck(bookings, reqs[r].data.spot_id, reqs[r].data.start_time,
                     reqs[r].data.end_time) # {}
       THEN /\ reqs' = [reqs EXCEPT ![r].pc = "done", ![r].code = 409]
            /\ last' = Response("createBooking", 409)
       ELSE /\ reqs' = [reqs EXCEPT ![r].pc = "insert"]
            /\ UNCHANGED last
  /\ UNCHANGED <<spots, slots, bookings, reviews, notifications>>

(* Third round-trip: the INSERT. *)
create_insert(r) ==
  /\ reqs[r].pc = "insert"
  /\ LET res == InsertBooking(spots, bookings,
                              NewBookingRow(reqs[r].data, reqs[r].homeowner_id))
     IN /\ bookings' = res.rows
        /\ reqs' = [reqs EXCEPT ![r].pc = "done", ![r].code = res.code]
        /\ last' = Response("createBooking", res.code)
  /\ UNCHANGED <<spots, slots, reviews, notifications>>

(* ------- createSpotAvailability and updateSpotAvailability, one -------- *)
(* ----------------------- store round-trip at a time --------------------- *)

LedgerIdle ==
  [pc |-> "idle", op |-> NULL, user |-> NULL, spot_id |-> 0,
   availability_id |-> 0, fields |-> {}, start_time |-> 0, end_time |-> 0,
   code |-> 0]

(* The first idle place of the requests in flight. *)
FreePlace(r) ==
  /\ reqs[r].pc = "idle"
  /\ \A q \in 1..(r - 1) : reqs[q].pc # "idle"

(* The request is answered. *)
Answered(r, op, code) ==
  /\ reqs' = [reqs EXCEPT ![r].pc = "done", ![r].code = code]
  /\ last' = Response(op, code)

(* A homeowner's declare request with startTime < endTime passes the
   middleware and the schema. *)
createAvailability_begin(u, spotId, startTime, endTime) ==
  /\ authorize({"homeowner"}, u)
  /\ startTime < endTime
  /\ \E r \in 1..MaxInFlight :
       /\ FreePlace(r)
       /\ reqs' = [reqs EXCEPT ![r] =
                     [LedgerIdle EXCEPT !.pc = "spotLookup",
                                        !.op = "createSpotAvailability",
                                        !.user = u, !.spot_id = spotId,
                                        !.start_time = startTime,
                                        !.end_time = endTime]]
  /\ UNCHANGED <<spots, slots, bookings, last, reviews, notifications>>

(* await ParkingSpot.findById(spotId), and the ownership test. *)
createAvailability_spotLookup(r) ==
  /\ reqs[r].op = "createSpotAvailability" /\ reqs[r].pc = "spotLookup"
  /\ IF SpotRows(spots, reqs[r].spot_id) = {}
       THEN Answered(r, "createSpotAvailability", 404)
       ELSE IF spots[reqs[r].spot_id].homeowner_id # reqs[r].user
               /\ user_type(reqs[r].user) # "admin"
         THEN Answered(r, "createSpotAvailability", 403)
       ELSE /\ reqs' = [reqs EXCEPT ![r].pc = "overlapCheck"]
            /\ UNCHANGED last
  /\ UNCHANGED <<spots, slots, bookings, reviews, notifications>>

(* await SpotAvailability.isTimeRangeAvailable(spotId, startTime, endTime) *)
createAvailability_overlapCheck(r) ==
  /\ reqs[r].op = "createSpotAvailability" /\ reqs[r].pc = "overlapCheck"
  /\ IF ~isTimeRangeAvailable(slots, reqs[r].spot_id, reqs[r].start_time,
                              reqs[r].end_time, 0)
       THEN Answered(r, "createSpotAvailability", 409)
       ELSE /\ reqs' = [reqs EXCEPT ![r].pc = "write"]
            /\ UNCHANGED last
  /\ UNCHANGED <<spots, slots, bookings, reviews, notifications>>

(* await SpotAvailability.createAvailability(...): the INSERT. *)
createAvailability_insert(r) ==
  /\ reqs[r].op = "createSpotAvailability" /\ reqs[r].pc = "write"
  /\ slots' = Append(slots, [availability_id |-> NextAvailabilityId(slots),
                             spot_id |-> reqs[r].spot_id,
                             start_time |-> reqs[r].start_time,
                             end_time |-> reqs[r].end_time,
                             is_booked |-> FALSE])
  /\ Answered(r, "createSpotAvailability", 201)
  /\ UNCHANGED <<spots, bookings, reviews, notifications>>

(* A homeowner's update request that changes a bound passes the middleware
   and the schema. *)
updateAvailability_begin(u, availabilityId, fields, startTime, endTime) ==
  /\ authorize({"homeowner"}, u)
  /\ fields # {}
  /\ {"startTime", "endTime"} \subseteq fields => startTime < endTime
  /\ \E r \in 1..MaxInFlight :
       /\ FreePlace(r)
       /\ reqs' = [reqs EXCEPT ![r] =
                     [LedgerIdle EXCEPT !.pc = "findById",
                                        !.op = "updateSpotAvailability",
                                        !.user = u,
                                        !.availability_id = availabilityId,
                                        !.fields = fields,
                                        !.start_time = startTime,
                                        !.end_time = endTime]]
  /\ UNCHANGED <<spots, slots, bookings, last, reviews, notifications>>

(* await SpotAvailability.findById(availabilityId): the request keeps the
   row it read; the bounds the body does not carry are taken from it. *)
updateAvailability_findById(r) ==
  /\ reqs[r].op = "updateSpotAvailability" /\ reqs[r].pc = "findById"
  /\ LET found == SpotAvailability_findById(slots, reqs[r].availability_id)
         availability == slots[CHOOSE i \in found : TRUE]
     IN IF found = {}
          THEN Answered(r, "updateSpotAvailability", 404)
          ELSE /\ reqs' = [reqs EXCEPT
                             ![r].pc = "spotLookup",
                             ![r].spot_id = availability.spot_id,
                             ![r].start_time =
                                IF "startTime" \in reqs[r].fields THEN @
                                ELSE availability.start_time,
                             ![r].end_time =
                                IF "endTime" \in reqs[r].fields THEN @
                                ELSE availability.end_time]
               /\ UNCHANGED last
  /\ UNCHANGED <<spots, slots, bookings, reviews, notifications>>

(* await ParkingSpot.findById(availability.spot_id), the ownership test and
   the test of the new bounds. *)
updateAvailability_spotLookup(r) ==
  /\ reqs[r].op = "updateSpotAvailability" /\ reqs[r].pc = "spotLookup"
  /\ IF SpotRows(spots, reqs[r].spot_id) = {}
          \/ (spots[reqs[r].spot_id].homeowner_id # reqs[r].user
                /\ user_type(reqs[r].user) # "admin")
       THEN Answered(r, "updateSpotAvailability", 403)
       ELSE IF reqs[r].start_time >= reqs[r].end_time
         THEN Answered(r, "updateSpotAvailability", 400)
       ELSE /\ reqs' = [reqs EXCEPT ![r].pc = "overlapCheck"]
            /\ UNCHANGED last
  /\ UNCHANGED <<spots, slots, bookings, reviews, notifications>>

(* await SpotAvailability.isTimeRangeAvailable(spot_id, newStartTime,
   newEndTime, availabilityId) *)
updateAvailability_overlapCheck(r) ==
  /\ reqs[r].op = "updateSpotAvailability" /\ reqs[r].pc = "overlapCheck"
  /\ IF ~isTimeRangeAvailable(slots, reqs[r].spot_id, reqs[r].start_time,
                              reqs[r].end_time, reqs[r].availability_id)
       THEN Answered(r, "updateSpotAvailability", 409)
       ELSE /\ reqs' = [reqs EXCEPT ![r].pc = "write"]
            /\ UNCHANGED last
  /\ UNCHANGED <<spots, slots, bookings, reviews, notifications>>

(* await SpotAvailability.updateAvailability(availabilityId, updateData):
   the UPDATE writes the bounds the body carries. *)
updateAvailability_update(r) ==
  /\ reqs[r].op = "updateSpotAvailability" /\ reqs[r].pc = "write"
  /\ slots' = SpotAvailability_updateAvailability(
                 slots, reqs[r].availability_id, reqs[r].fields,
                 reqs[r].start_time, reqs[r].end_time, FALSE)
  /\ Answered(r, "updateSpotAvailability",
              IF SpotAvailability_findById(slots, reqs[r].availability_id) = {}
                THEN 400 ELSE 200)
  /\ UNCHANGED <<spots, bookings, reviews, notifications>>

(* ------------- controllers/review.js, one store round-trip at a time --- *)

ReviewIdle == [pc |-> "idle", user |-> NULL, booking_id |-> 0, code |-> 0]

(* Review.findByBookingId: the indexes of the reviews of the booking. *)
Review_findByBookingId(rvs, bookingId) ==
  {i \in 1..Len(rvs) : rvs[i].booking_id = bookingId}

(* What the reviews table asks of an inserted row: booking_id is UNIQUE. *)
ReviewsTableAccepts(rvs, row) ==
  Review_findByBookingId(rvs, row.booking_id) = {}

(* A createReview request with a valid body enters the handler. *)
createReview_begin(u, bookingId) ==
  /\ \E r \in 1..MaxInFlight :
       /\ FreePlace(r)
       /\ reqs' = [reqs EXCEPT ![r] =
                     [pc |-> "findBooking", user |-> u,
                      booking_id |-> bookingId, code |-> 0]]
  /\ UNCHANGED <<spots, slots, bookings, last, reviews, notifications>>

(* await Booking.findById(bookingId), then the tests of the driver and of
   the status on the row read. *)
createReview_findBooking(r) ==
  /\ reqs[r].pc = "findBooking"
  /\ IF reqs[r].booking_id \notin BookingIds
       THEN Answered(r, "createReview", 404)
       ELSE IF bookings[reqs[r].booking_id].driver_id # reqs[r].user
         THEN Answered(r, "createReview", 403)
       ELSE IF bookings[reqs[r].booking_id].booking_status # "completed"
         THEN Answered(r, "createReview", 400)
       ELSE /\ reqs' = [reqs EXCEPT ![r].pc = "findByBookingId"]
            /\ UNCHANGED last
  /\ UNCHANGED <<spots, slots, bookings, reviews, notifications>>

(* await Review.findByBookingId(bookingId) *)
createReview_findByBookingId(r) ==
  /\ reqs[r].pc = "findByBookingId"
  /\ IF Review_findByBookingId(reviews, reqs[r].booking_id) # {}
       THEN Answered(r, "createReview", 409)
       ELSE /\ reqs' = [reqs EXCEPT ![r].pc = "insert"]
            /\ UNCHANGED last
  /\ UNCHANGED <<spots, slots, bookings, reviews, notifications>>

(* await Review.createReview(...): the INSERT; the store refuses a second
   row of the booking, the query throws and the handler answers 500. *)
createReview_insert(r) ==
  /\ reqs[r].pc = "insert"
  /\ LET row == [booking_id |-> reqs[r].booking_id,
                 reviewer_id |-> reqs[r].user,
                 spot_id |-> bookings[reqs[r].booking_id].spot_id]
     IN IF ReviewsTableAccepts(reviews, row)
          THEN /\ reviews' = Append(reviews, row)
               /\ Answered(r, "createReview", 201)
          ELSE /\ UNCHANGED reviews
               /\ Answered(r, "createReview", 500)
  /\ UNCHANGED <<spots, slots, bookings, notifications>>

(* ------- updateBookingStatus, one store round-trip at a time ----------- *)

StatusIdle ==
  [pc |-> "idle", user |-> NULL, booking_id |-> 0, status |-> NULL,
   timeField |-> NULL, code |-> 0]

(* An updateBookingStatus request with a status of the schema enters the
   handler. *)
updateBookingStatus_begin(u, id, status) ==
  /\ \E r \in 1..MaxInFlight :
       /\ FreePlace(r)
       /\ reqs' = [reqs EXCEPT ![r] =
                     [StatusIdle EXCEPT !.pc = "findById", !.user = u,
                                        !.booking_id = id,
                                        !.status = status]]
  /\ UNCHANGED <<spots, slots, bookings, last, reviews, notifications>>

(* await Booking.findById(id), then the switch on the row read: the
   request is answered, or goes on to its write with the column to stamp. *)
updateBookingStatus_findById(r) ==
  /\ reqs[r].pc = "findById"
  /\ IF reqs[r].booking_id \notin BookingIds
       THEN Answered(r, "updateBookingStatus", 404)
       ELSE LET d == TransitionDecision(bookings[reqs[r].booking_id],
                                        reqs[r].user, user_type(reqs[r].user),
                                        reqs[r].status)
            IN IF d.code # 200
                 THEN Answered(r, "updateBookingStatus", d.code)
                 ELSE /\ reqs' = [reqs EXCEPT ![r].pc = "write",
                                              ![r].timeField = d.timeField]
                      /\ UNCHANGED last
  /\ UNCHANGED <<spots, slots, bookings, reviews, notifications>>

(* await Booking.updateStatus(id, status, timeFieldToUpdate): the UPDATE,
   whatever the row holds by now. *)
updateBookingStatus_updateStatus(r) ==
  /\ reqs[r].pc = "write"
  /\ bookings' = Booking_updateStatus(bookings, reqs[r].booking_id,
                                      reqs[r].status, reqs[r].timeField)
  /\ Answered(r, "updateBookingStatus", 200)
  /\ UNCHANGED <<spots, slots, reviews, notifications>>

(* --------------------------- specifications ---------------------------- *)

InitSpots ==
  [s \in SpotIds |->
     IF s = 1 THEN [exists |-> TRUE, homeowner_id |-> "h1",
                    status |-> "active", is_available |-> TRUE]
     ELSE IF s = 2 THEN [exists |-> TRUE, homeowner_id |-> "h2",
                         status |-> "active", is_available |-> TRUE]
     ELSE NoSpot]

Init ==
  /\ spots = InitSpots
  /\ slots = <<>>
  /\ bookings = <<>>
  /\ reviews = <<>>
  /\ notifications = <<>>
  /\ reqs = [r \in 1..MaxInFlight |-> Idle]
  /\ last = NoRequest
  /\ audit = NoAudit
  /\ nreq = 0

(* One more request within the budget of the run. *)
Budget == nreq < MaxRequests /\ nreq' = nreq + 1

(* Spec: the booking handlers, one request per step. *)
Next ==
  \/ \E u \in Users, s \in SpotIds, st \in Times, en \in Times :
       /\ Len(bookings) < MaxBookings
       /\ createBooking(u, s, st, en, NULL)
       /\ Budget /\ UNCHANGED audit
  \/ \E u \in Users, id \in 1..MaxBookings, status \in BookingStatuses :
       /\ updateBookingStatus(u, id, status)
       /\ Budget /\ UNCHANGED audit
  \/ \E u \in Users, id \in 1..MaxBookings, ps \in PaymentStatuses,
        intent \in {undefined} \cup IntentIds :
       /\ updatePaymentStatus(u, id, ps, intent)
       /\ Budget /\ UNCHANGED audit
  \/ \E u \in Users, id \in 1..MaxBookings :
       /\ createTransaction(u, id, "booking_payment", "completed")
       /\ Budget /\ UNCHANGED audit

Spec == Init /\ [][Next]_vars

(* SpecLife: one pending booking of driver d1 on spot 1 (the state after one
   createBooking) and every request any user can make about it. *)
InitLife ==
  /\ spots = InitSpots
  /\ slots = <<>>
  /\ bookings = <<NewBookingRow(BookingData("d1", 1, 0, 1, NULL), "h1")>>
  /\ reviews = <<>>
  /\ notifications = <<>>
  /\ reqs = [r \in 1..MaxInFlight |-> Idle]
  /\ last = Response("createBooking", 201)
  /\ audit = NoAudit
  /\ nreq = 0

StatusOf(id) == IF id \in BookingIds THEN bookings[id].booking_status ELSE NULL

NextLife ==
  \/ \E u \in Users, id \in 1..2, status \in BookingStatuses :
       /\ updateBookingStatus(u, id, status)
       /\ audit' = Audit(u, id, status, StatusOf(id))
       /\ UNCHANGED nreq
  \/ \E u \in Users, id \in 1..2, ps \in PaymentStatuses,
        intent \in {undefined} \cup IntentIds :
       /\ updatePaymentStatus(u, id, ps, intent)
       /\ audit' = Audit(u, id, ps, StatusOf(id))
       /\ UNCHANGED nreq
  \/ \E u \in Users, id \in 1..2 :
       /\ createTransaction(u, id, "booking_payment", "completed")
       /\ audit' = Audit(u, id, "booking_payment", StatusOf(id))
       /\ UNCHANGED nreq

SpecLife == InitLife /\ [][NextLife]_vars

(* SpecPay: the life of one booking with the payment requests: the
   requests of SpecLife and processStripePayment with every outcome of the
   gateway. *)
NextPay ==
  \/ \E u \in Users, id \in 1..2, status \in BookingStatuses :
       /\ updateBookingStatus(u, id, status)
       /\ audit' = Audit(u, id, status, StatusOf(id))
       /\ UNCHANGED nreq
  \/ \E u \in Users, id \in 1..2, ps \in PaymentStatuses,
        intent \in {undefined} \cup IntentIds :
       /\ updatePaymentStatus(u, id, ps, intent)
       /\ audit' = Audit(u, id, ps, StatusOf(id))
       /\ UNCHANGED nreq
  \/ \E u \in Users, id \in 1..2, intent \in IntentIds,
        ps \in PaymentStatuses, gateway \in GatewayOutcomes :
       /\ processStripePayment(u, id, intent, ps, gateway)
       /\ audit' = Audit(u, id, ps, gateway)
       /\ UNCHANGED nreq
  \/ \E u \in Users, id \in 1..2 :
       /\ createTransaction(u, id, "booking_payment", "completed")
       /\ audit' = Audit(u, id, "booking_payment", StatusOf(id))
       /\ UNCHANGED nreq

SpecPay == InitLife /\ [][NextPay]_vars

(* SpecGate: the homeowner's spot and availability requests and the
   drivers' createBooking. *)
NextGate ==
  \/ \E u \in Users, s \in SpotIds, st \in Times, en \in Times :
       /\ Len(bookings) < MaxBookings
       /\ createBooking(u, s, st, en, NULL)
       /\ Budget /\ UNCHANGED audit
  \/ \E u \in Users, s \in SpotIds, fields \in SUBSET {"status", "isAvailable"},
        status \in SpotStatuses, av \in BOOLEAN :
       /\ updateParkingSpot(u, s, fields, status, av)
       /\ Budget /\ UNCHANGED audit
  \/ \E u \in Users, s \in SpotIds :
       /\ toggleParkingSpotAvailability(u, s)
       /\ Budget /\ UNCHANGED audit
  \/ \E u \in Users, s \in SpotIds :
       /\ deleteParkingSpot(u, s)
       /\ Budget /\ UNCHANGED audit
  \/ \E u \in Users, s \in SpotIds, st \in Times, en \in Times :
       /\ Len(slots) < MaxSlots
       /\ createSpotAvailability(u, s, st, en)
       /\ Budget /\ UNCHANGED audit

SpecGate == Init /\ [][NextGate]_vars

(* SpecLedger: the homeowners' declare, update and remove requests on the
   availability slots of the two spots; the table gives out the ids
   1..MaxSlots. *)
NextLedger ==
  \/ \E u \in Users, s \in SpotIds, st \in Times, en \in Times :
       /\ NextAvailabilityId(slots) <= MaxSlots
       /\ createSpotAvailability(u, s, st, en)
       /\ UNCHANGED <<audit, nreq>>
  \/ \E u \in Users, id \in 1..MaxSlots,
        fields \in SUBSET {"startTime", "endTime", "isBooked"} :
       \E st \in IF "startTime" \in fields THEN Times ELSE {0},
          en \in IF "endTime" \in fields THEN Times ELSE {0},
          bk \in IF "isBooked" \in fields THEN BOOLEAN ELSE {FALSE} :
         /\ updateSpotAvailability(u, id, fields, st, en, bk)
         /\ UNCHANGED <<audit, nreq>>
  \/ \E u \in Users, id \in 1..MaxSlots :
       /\ deleteSpotAvailability(u, id)
       /\ UNCHANGED <<audit, nreq>>

SpecLedger == Init /\ [][NextLedger]_vars

(* SpecQuery: the homeowners' declare and remove requests and the query of
   a spot's slots. *)
NextQuery ==
  \/ \E u \in Users, s \in SpotIds, st \in Times, en \in Times :
       /\ NextAvailabilityId(slots) <= MaxSlots
       /\ createSpotAvailability(u, s, st, en)
       /\ audit' = NoAudit /\ UNCHANGED nreq
  \/ \E u \in Users, id \in 1..MaxSlots :
       /\ deleteSpotAvailability(u, id)
       /\ audit' = NoAudit /\ UNCHANGED nreq
  \/ \E s \in SpotIds, bounds \in SUBSET {"start", "end"} :
       \E start \in IF "start" \in bounds THEN Times ELSE {0},
          end \in IF "end" \in bounds THEN Times ELSE {0} :
         getSpotAvailability(s, bounds, start, end) /\ UNCHANGED nreq

SpecQuery == Init /\ [][NextQuery]_vars

(* SpecRace: createBooking requests whose round-trips interleave. *)
NextRace ==
  \/ \E u \in Drivers, s \in SpotIds, st \in Times, en \in Times :
       create_begin(u, s, st, en) /\ UNCHANGED <<audit, nreq>>
  \/ \E r \in 1..MaxInFlight :
       create_spotLookup(r) /\ UNCHANGED <<audit, nreq>>
  \/ \E r \in 1..MaxInFlight :
       create_overlapCheck(r) /\ UNCHANGED <<audit, nreq>>
  \/ \E r \in 1..MaxInFlight :
       create_insert(r) /\ UNCHANGED <<audit, nreq>>

SpecRace == Init /\ [][NextRace]_vars

(* SpecLedgerRace: spot 1 of h1 has one declared slot over [0, 1); declare
   requests and bound-changing update requests of the homeowners, whose
   round-trips interleave.  No request of the run books, unbooks or removes
   a slot. *)
InitLedgerRace ==
  /\ spots = InitSpots
  /\ slots = <<[availability_id |-> 1, spot_id |-> 1, start_time |-> 0,
                end_time |-> 1, is_booked |-> FALSE]>>
  /\ bookings = <<>>
  /\ reviews = <<>>
  /\ notifications = <<>>
  /\ reqs = [r \in 1..MaxInFlight |-> LedgerIdle]
  /\ last = Response("createSpotAvailability", 201)
  /\ audit = NoAudit
  /\ nreq = 0

NextLedgerRace ==
  \/ \E u \in Homeowners, s \in SpotIds, st \in Times, en \in Times :
       createAvailability_begin(u, s, st, en) /\ UNCHANGED <<audit, nreq>>
  \/ \E r \in 1..MaxInFlight :
       createAvailability_spotLookup(r) /\ UNCHANGED <<audit, nreq>>
  \/ \E r \in 1..MaxInFlight :
       createAvailability_overlapCheck(r) /\ UNCHANGED <<audit, nreq>>
  \/ \E r \in 1..MaxInFlight :
       createAvailability_insert(r) /\ UNCHANGED <<audit, nreq>>
  \/ \E u \in Homeowners, id \in 1..MaxSlots,
        fields \in (SUBSET {"startTime", "endTime"}) \ {{}} :
       \E st \in IF "startTime" \in fields THEN Times ELSE {0},
          en \in IF "endTime" \in fields THEN Times ELSE {0} :
         updateAvailability_begin(u, id, fields, st, en)
           /\ UNCHANGED <<audit, nreq>>
  \/ \E r \in 1..MaxInFlight :
       updateAvailability_findById(r) /\ UNCHANGED <<audit, nreq>>
  \/ \E r \in 1..MaxInFlight :
       updateAvailability_spotLookup(r) /\ UNCHANGED <<audit, nreq>>
  \/ \E r \in 1..MaxInFlight :
       updateAvailability_overlapCheck(r) /\ UNCHANGED <<audit, nreq>>
  \/ \E r \in 1..MaxInFlight :
       updateAvailability_update(r) /\ UNCHANGED <<audit, nreq>>

SpecLedgerRace == InitLedgerRace /\ [][NextLedgerRace]_vars

(* SpecReview: the life of one booking and the createReview requests of
   every user about it, whose round-trips interleave. *)
InitReview ==
  /\ spots = InitSpots
  /\ slots = <<>>
  /\ bookings = <<NewBookingRow(BookingData("d1", 1, 0, 1, NULL), "h1")>>
  /\ reviews = <<>>
  /\ notifications = <<>>
  /\ reqs = [r \in 1..MaxInFlight |-> ReviewIdle]
  /\ last = Response("createBooking", 201)
  /\ audit = NoAudit
  /\ nreq = 0

NextReview ==
  \/ \E u \in Users, id \in 1..2, status \in BookingStatuses :
       /\ updateBookingStatus(u, id, status)
       /\ UNCHANGED <<audit, nreq>>
  \/ \E u \in Users, id \in 1..2 :
       createReview_begin(u, id) /\ UNCHANGED <<audit, nreq>>
  \/ \E r \in 1..MaxInFlight :
       createReview_findBooking(r) /\ UNCHANGED <<audit, nreq>>
  \/ \E r \in 1..MaxInFlight :
       createReview_findByBookingId(r) /\ UNCHANGED <<audit, nreq>>
  \/ \E r \in 1..MaxInFlight :
       createReview_insert(r) /\ UNCHANGED <<audit, nreq>>

SpecReview == InitReview /\ [][NextReview]_vars

(* SpecStatusRace: one pending booking and updateBookingStatus requests of
   every user about it, whose round-trips interleave. *)
InitStatusRace ==
  /\ spots = InitSpots
  /\ slots = <<>>
  /\ bookings = <<NewBookingRow(BookingData("d1", 1, 0, 1, NULL), "h1")>>
  /\ reviews = <<>>
  /\ notifications = <<>>
  /\ reqs = [r \in 1..MaxInFlight |-> StatusIdle]
  /\ last = Response("createBooking", 201)
  /\ audit = NoAudit
  /\ nreq = 0

NextStatusRace ==
  \/ \E u \in Users, id \in 1..2, status \in BookingStatuses :
       updateBookingStatus_begin(u, id, status) /\ UNCHANGED <<audit, nreq>>
  \/ \E r \in 1..MaxInFlight :
       updateBookingStatus_findById(r) /\ UNCHANGED <<audit, nreq>>
  \/ \E r \in 1..MaxInFlight :
       updateBookingStatus_updateStatus(r) /\ UNCHANGED <<audit, nreq>>

SpecStatusRace == InitStatusRace /\ [][NextStatusRace]_vars

(* SpecBookLedger: the booking requests next to the homeowners' declare,
   update and remove requests on the availability slots. *)
NextBookLedger ==
  \/ \E u \in Users, s \in SpotIds, st \in Times, en \in Times :
       /\ Len(bookings) < MaxBookings
       /\ createBooking(u, s, st, en, NULL)
       /\ Budget /\ UNCHANGED audit
  \/ \E u \in Users, id \in 1..MaxBookings, status \in BookingStatuses :
       /\ updateBookingStatus(u, id, status)
       /\ Budget /\ UNCHANGED audit
  \/ \E u \in Users, s \in SpotIds, st \in Times, en \in Times :
       /\ NextAvailabilityId(slots) <= MaxSlots
       /\ createSpotAvailability(u, s, st, en)
       /\ Budget /\ UNCHANGED audit
  \/ \E u \in Users, id \in 1..MaxSlots,
        fields \in SUBSET {"startTime", "endTime", "isBooked"} :
       \E st \in IF "startTime" \in fields THEN Times ELSE {0},
          en \in IF "endTime" \in fields THEN Times ELSE {0},
          bk \in IF "isBooked" \in fields THEN BOOLEAN ELSE {FALSE} :
         /\ updateSpotAvailability(u, id, fields, st, en, bk)
         /\ Budget /\ UNCHANGED audit
  \/ \E u \in Users, id \in 1..MaxSlots :
       /\ deleteSpotAvailability(u, id)
       /\ Budget /\ UNCHANGED audit

SpecBookLedger == Init /\ [][NextBookLedger]_vars

(* ------------------------------ claims --------------------------------- *)

TerminalStatuses ==
  {"rejected", "cancelled_by_driver", "cancelled_by_homeowner", "completed"}

ActiveStatuses == {"pending", "confirmed", "checked_in"}

(* Half-open ranges [s1, e1) and [s2, e2) share an instant. *)
Overlap(s1, e1, s2, e2) == s1 < e2 /\ s2 < e1

(* The stored bookings of the spot, outside the terminal statuses, whose
   range overlaps the candidate's. *)
Conflicts(s, st, en) ==
  {i \in BookingIds :
     /\ bookings[i].spot_id = s
     /\ bookings[i].booking_status \notin TerminalStatuses
     /\ Overlap(bookings[i].start_time, bookings[i].end_time, st, en)}

(* C2. With every request handled as one step, after any sequence of
   createBooking, updateBookingStatus, payment-status and transaction
   requests, every spot and every instant t has at most one booking in
   pending, confirmed or checked_in with start_time <= t < end_time. *)
C2_AtMostOneActivePerInstant ==
  \A s \in SpotIds, t \in Times :
     Cardinality({i \in BookingIds :
                    /\ bookings[i].spot_id = s
                    /\ bookings[i].booking_status \in ActiveStatuses
                    /\ bookings[i].start_time <= t
                    /\ t < bookings[i].end_time}) <= 1

(* Two bookings of one spot with overlapping ranges, the earlier one
   terminal and the later one active. *)
C2_Witness ==
  \E i \in BookingIds, j \in BookingIds :
     /\ i < j
     /\ bookings[i].spot_id = bookings[j].spot_id
     /\ Overlap(bookings[i].start_time, bookings[i].end_time,
                bookings[j].start_time, bookings[j].end_time)
     /\ bookings[i].booking_status \in TerminalStatuses
     /\ bookings[j].booking_status \in ActiveStatuses

(* C3. A createBooking request that reached the handler with end > start is
   answered 409 exactly when a stored booking of the same spot outside the
   terminal statuses overlaps the candidate (s1 < e2 and s2 < e1); a 409
   leaves the table as it was, and without such a booking the request on an
   existing spot inserts its row. *)
C3_ConflictIffOverlap ==
  [][\A u \in Drivers, s \in SpotIds, st \in Times, en \in Times :
       (st < en /\ createBooking(u, s, st, en, NULL)) =>
          /\ (last'.code = 409) <=> (Conflicts(s, st, en) # {})
          /\ (last'.code = 409) => (bookings' = bookings)
          /\ (Conflicts(s, st, en) = {} /\ SpotRows(spots, s) # {}) =>
               (last'.code = 201 /\ Len(bookings') = Len(bookings) + 1)]_vars

(* A candidate that starts at the instant a live booking of the spot ends
   has just been accepted. *)
C3_Witness ==
  /\ last = Response("createBooking", 201)
  /\ Len(bookings) = 2
  /\ bookings[1].spot_id = bookings[2].spot_id
  /\ bookings[1].booking_status \notin TerminalStatuses
  /\ bookings[2].start_time = bookings[1].end_time

(* C6. The row a successful createBooking inserts has booking_status and
   payment_status pending, the caller as driver_id and the spot's
   homeowner_id as homeowner_id. *)
C6_InsertedRow ==
  [][\A u \in Users, s \in SpotIds, st \in Times, en \in Times :
       (createBooking(u, s, st, en, NULL) /\ last'.code = 201) =>
          /\ Len(bookings') = Len(bookings) + 1
          /\ SubSeq(bookings', 1, Len(bookings)) = bookings
          /\ LET b == bookings'[Len(bookings')]
             IN /\ b.booking_status = "pending"
                /\ b.payment_status = "pending"
                /\ b.driver_id = u
                /\ b.homeowner_id = spots[s].homeowner_id
                /\ b.spot_id = s]_vars

(* Driver d2 has just booked spot 2, which belongs to h2. *)
C6_Witness ==
  /\ last = Response("createBooking", 201)
  /\ Len(bookings) >= 1
  /\ bookings[Len(bookings)].driver_id = "d2"
  /\ bookings[Len(bookings)].spot_id = 2
  /\ bookings[Len(bookings)].homeowner_id = "h2"

(* The caller of the audited request is the actor the transition table
   names for the requested status, or an admin: the request passes the
   actor check of its case. *)
AuditByTableActor ==
  /\ audit.id \in BookingIds
  /\ \/ audit.user \in Admins
     \/ /\ audit.arg \in {"cancelled_by_driver", "checked_in", "checked_out"}
        /\ audit.user = bookings[audit.id].driver_id
     \/ /\ audit.arg \in {"confirmed", "rejected", "cancelled_by_homeowner",
                          "completed"}
        /\ audit.user = bookings[audit.id].homeowner_id

(* C1. Whatever the interleaving of the round-trips of concurrent
   createBooking requests, no two stored bookings of one spot, both outside
   the terminal statuses, have overlapping ranges. *)
C1_NoOverlapUnderRace ==
  \A i \in BookingIds, j \in BookingIds :
     (/\ i < j
      /\ bookings[i].spot_id = bookings[j].spot_id
      /\ bookings[i].booking_status \notin TerminalStatuses
      /\ bookings[j].booking_status \notin TerminalStatuses)
     => ~Overlap(bookings[i].start_time, bookings[i].end_time,
                 bookings[j].start_time, bookings[j].end_time)

(* C4. A booking has been inserted only for a spot that exists, is active
   and is available when the request is handled. *)
C4_OnlyBookableSpot ==
  (last = Response("createBooking", 201) /\ Len(bookings) >= 1) =>
     LET s == bookings[Len(bookings)].spot_id
     IN /\ SpotRows(spots, s) # {}
        /\ spots[s].status = "active"
        /\ spots[s].is_available = TRUE

(* C5. A booking has been inserted only when an unbooked availability slot
   of the spot contains its range. *)
C5_OnlyInsideUnbookedSlot ==
  (last = Response("createBooking", 201) /\ Len(bookings) >= 1) =>
     LET b == bookings[Len(bookings)]
     IN checkAvailabilityForBooking(slots, b.spot_id, b.start_time, b.end_time)

(* C7. An updateBookingStatus request on a booking in a terminal status,
   made by the actor of the requested status or by an admin, is answered
   400, whatever the requested status. *)
C7_TerminalAnswers400 ==
  (/\ last.op = "updateBookingStatus"
   /\ audit.from \in TerminalStatuses
   /\ AuditByTableActor)
  => last.code = 400

(* C8. A booking_status that is terminal is never changed to a different
   value by any request of any user. *)
C8_TerminalNeverChanges ==
  [][\A id \in BookingIds :
       bookings[id].booking_status \in TerminalStatuses =>
          bookings'[id].booking_status = bookings[id].booking_status]_vars

(* C9. A cancellation succeeds only from pending or confirmed; from
   checked_in, checked_out or a terminal status it is answered 400 and the
   status stays. *)
C9_CancelOnlyFromPendingOrConfirmed ==
  (/\ last.op = "updateBookingStatus"
   /\ audit.arg \in {"cancelled_by_driver", "cancelled_by_homeowner"}
   /\ audit.id \in BookingIds)
  => /\ last.code = 200 => audit.from \in {"pending", "confirmed"}
     /\ (AuditByTableActor /\ audit.from \notin {"pending", "confirmed"}) =>
          /\ last.code = 400
          /\ bookings[audit.id].booking_status = audit.from

(* C10. A request for confirmed or rejected succeeds only on a pending
   booking and only for the booking's homeowner or an admin; made by the
   homeowner on a booking in another status it is answered 400 and the
   bookings stay as they were. *)
C10_ConfirmRejectOnlyFromPending ==
  [][\A u \in Users, id \in BookingIds, status \in {"confirmed", "rejected"} :
       updateBookingStatus(u, id, status) =>
          /\ last'.code = 200 =>
               /\ bookings[id].booking_status = "pending"
               /\ u = bookings[id].homeowner_id \/ u \in Admins
               /\ bookings'[id].booking_status = status
          /\ (u = bookings[id].homeowner_id
                /\ bookings[id].booking_status # "pending") =>
               (last'.code = 400 /\ bookings' = bookings)]_vars

(* The homeowner's request to reject a booking that is confirmed has been
   answered 400, and the booking is still confirmed. *)
C10_Witness ==
  /\ last = Response("updateBookingStatus", 400)
  /\ audit = Audit("h1", 1, "rejected", "confirmed")
  /\ bookings[1].booking_status = "confirmed"
  /\ bookings[1].homeowner_reject_time = NULL

(* C11. A check-in request of the booking's driver is answered 200 exactly
   when the booking is pending or confirmed, and then the booking is
   checked_in with driver_check_in_time set; otherwise it is answered 400
   and writes nothing.  A check-in request that follows a check-in request
   of the driver on the same booking is answered 400 and leaves
   driver_check_in_time as it was. *)
C11_CheckInOnce ==
  [][last'.op = "updateBookingStatus" =>
     \A id \in BookingIds :
       LET u == bookings[id].driver_id
       IN updateBookingStatus(u, id, "checked_in") =>
            /\ (last'.code = 200) <=>
                 (bookings[id].booking_status \in {"pending", "confirmed"})
            /\ last'.code = 200 =>
                 /\ bookings'[id].booking_status = "checked_in"
                 /\ bookings'[id].driver_check_in_time = NOW
            /\ last'.code # 200 => (last'.code = 400 /\ bookings' = bookings)
            /\ (/\ last.op = "updateBookingStatus"
                /\ audit.user = u /\ audit.id = id
                /\ audit.arg = "checked_in") =>
                 /\ last'.code = 400
                 /\ bookings'[id].driver_check_in_time =
                      bookings[id].driver_check_in_time]_vars

(* The driver's second check-in request in a row has been answered 400; the
   booking is checked_in with the time of the first. *)
C11_Witness ==
  /\ last = Response("updateBookingStatus", 400)
  /\ audit = Audit("d1", 1, "checked_in", "checked_in")
  /\ bookings[1].booking_status = "checked_in"
  /\ bookings[1].driver_check_in_time = NOW

(* C12. A request for checked_out succeeds only on a checked_in booking, and
   a homeowner's request for completed only on a checked_out one; a booking
   a homeowner completes carries the check-in and the check-out time, and it
   was checked in before it was checked out. *)
C12_OrderedTail ==
  [][last'.op = "updateBookingStatus" =>
     \A u \in Users, id \in BookingIds :
       /\ (updateBookingStatus(u, id, "checked_out") /\ last'.code = 200) =>
            /\ bookings[id].booking_status = "checked_in"
            /\ bookings[id].driver_check_in_time = NOW
            /\ bookings[id].driver_check_out_time = NULL
            /\ bookings'[id].driver_check_out_time = NOW
       /\ (u \in Homeowners /\ updateBookingStatus(u, id, "completed")
             /\ last'.code = 200) =>
            /\ bookings[id].booking_status = "checked_out"
            /\ bookings[id].driver_check_in_time = NOW
            /\ bookings[id].driver_check_out_time = NOW]_vars

(* The homeowner has just completed a checked_out booking. *)
C12_Witness ==
  /\ last = Response("updateBookingStatus", 200)
  /\ audit = Audit("h1", 1, "completed", "checked_out")
  /\ bookings[1].booking_status = "completed"
  /\ bookings[1].driver_check_in_time = NOW
  /\ bookings[1].driver_check_out_time = NOW

(* The target statuses of the transition table. *)
TableTargets ==
  {"confirmed", "rejected", "cancelled_by_driver", "cancelled_by_homeowner",
   "checked_in", "checked_out", "completed"}

(* The actor the transition table names for a target status. *)
TableActor(b, status) ==
  IF status \in {"cancelled_by_driver", "checked_in", "checked_out"}
    THEN b.driver_id
    ELSE b.homeowner_id

(* C13, as stated. Whatever the booking's status and whatever the target
   status of the table, an admin's updateBookingStatus request is answered
   200 and sets the booking to the target. *)
C13_AdminForcesAny ==
  [][last'.op = "updateBookingStatus" =>
     \A a \in Admins, id \in BookingIds, status \in TableTargets :
       updateBookingStatus(a, id, status) =>
          (last'.code = 200 /\ bookings'[id].booking_status = status)]_vars

(* C13, amended. An admin passes the actor check of every target status and
   is never answered 403, and a request of an admin that succeeds sets the
   booking to the target; but the status condition of the target binds the
   admin too: confirmed and rejected succeed exactly from pending,
   checked_in exactly from pending or confirmed, checked_out exactly from
   checked_in, and otherwise the answer is 400 and nothing is written. *)
C13_AdminPassesActorCheckOnly ==
  [][last'.op = "updateBookingStatus" =>
     \A a \in Admins, id \in BookingIds, status \in TableTargets :
       updateBookingStatus(a, id, status) =>
          LET cur == bookings[id].booking_status
              from == IF status \in {"confirmed", "rejected"} THEN {"pending"}
                      ELSE IF status = "checked_in"
                        THEN {"pending", "confirmed"}
                      ELSE IF status = "checked_out" THEN {"checked_in"}
                      ELSE BookingStatuses
          IN /\ last'.code \in {200, 400}
             /\ last'.code = 200 => bookings'[id].booking_status = status
             /\ last'.code = 400 => bookings' = bookings
             /\ status \in {"confirmed", "rejected", "checked_in",
                            "checked_out"} =>
                  ((last'.code = 200) <=> (cur \in from))]_vars

(* An admin's request to confirm a booking that is already confirmed has
   been answered 400. *)
C13_Witness ==
  /\ last = Response("updateBookingStatus", 400)
  /\ audit = Audit("a1", 1, "confirmed", "confirmed")
  /\ bookings[1].booking_status = "confirmed"

(* C14. An updateBookingStatus request for a target status of the table by
   a caller who is neither the actor the table names for it nor an admin is
   answered 403, whatever the booking's status, and writes nothing. *)
C14_WrongActor403 ==
  [][last'.op = "updateBookingStatus" =>
     \A u \in Users \ Admins, id \in BookingIds, status \in TableTargets :
       (u # TableActor(bookings[id], status)
          /\ updateBookingStatus(u, id, status)) =>
          (last'.code = 403 /\ bookings' = bookings)]_vars

(* Another driver's request to cancel the booking, made while it is
   pending, has been answered 403 and the booking is still pending. *)
C14_Witness ==
  /\ last = Response("updateBookingStatus", 403)
  /\ audit = Audit("d2", 1, "cancelled_by_driver", "pending")
  /\ bookings[1].driver_id = "d1"
  /\ bookings[1].booking_status = "pending"

(* C15. In every state, recording a payment outcome a second time with the
   same booking, gateway reference and outcome gives the answer and the
   bookings table of the first time, through processStripePayment and
   through updatePaymentStatus. *)
C15_PaymentIdempotent ==
  \A u \in Users, id \in 1..2, ps \in PaymentStatuses :
     /\ \A intent \in IntentIds, gateway \in GatewayOutcomes :
          LET once == processStripePaymentResult(bookings, u, id, intent, ps,
                                                 gateway)
              twice == processStripePaymentResult(once.rows, u, id, intent,
                                                  ps, gateway)
          IN twice = once
     /\ \A intent \in {undefined} \cup IntentIds :
          LET once == updatePaymentStatusResult(bookings, u, id, ps, intent)
              twice == updatePaymentStatusResult(once.rows, u, id, ps, intent)
          IN twice = once

(* The driver's payment of booking 1 has been recorded as paid under pi_1,
   and recording it again is answered 200 and gives this very table. *)
C15_Witness ==
  /\ last = Response("processStripePayment", 200)
  /\ audit = Audit("d1", 1, "paid", "succeeded")
  /\ bookings[1].payment_status = "paid"
  /\ bookings[1].stripe_payment_intent_id = "pi_1"
  /\ processStripePaymentResult(bookings, "d1", 1, "pi_1", "paid",
                                "succeeded")
       = [code |-> 200, rows |-> bookings]

(* C16. After processStripePayment has been answered 200 for a booking, the
   booking's payment_status is paid and its gateway reference is the
   payment intent of the request, whatever paymentStatus the body held. *)
C16_SucceededMeansPaid ==
  (last = Response("processStripePayment", 200) /\ audit.id \in BookingIds)
  => /\ bookings[audit.id].payment_status = "paid"
     /\ bookings[audit.id].stripe_payment_intent_id \in IntentIds

(* C17. After a driver's processStripePayment for a booking whose payment
   the gateway reports as not succeeded, the booking's payment_status is
   failed. *)
C17_NotSucceededMeansFailed ==
  (/\ last.op = "processStripePayment"
   /\ audit.user \in Drivers
   /\ audit.id \in BookingIds
   /\ audit.from = "requires_payment_method")
  => bookings[audit.id].payment_status = "failed"

(* C18. A processStripePayment, updatePaymentStatus or createTransaction
   request leaves the booking_status and the four lifecycle timestamps of
   every booking as they were. *)
C18_PaymentLeavesLifecycle ==
  [][last'.op \in {"processStripePayment", "updatePaymentStatus",
                   "createTransaction"} =>
       /\ Len(bookings') = Len(bookings)
       /\ \A id \in BookingIds :
            /\ bookings'[id].booking_status = bookings[id].booking_status
            /\ bookings'[id].driver_check_in_time =
                 bookings[id].driver_check_in_time
            /\ bookings'[id].driver_check_out_time =
                 bookings[id].driver_check_out_time
            /\ bookings'[id].homeowner_confirm_time =
                 bookings[id].homeowner_confirm_time
            /\ bookings'[id].homeowner_reject_time =
                 bookings[id].homeowner_reject_time]_vars

(* The admin's booking_payment transaction request for the pending booking
   has been answered, the driver's payment has been recorded as paid, and
   the booking is still pending and unconfirmed. *)
C18_Witness ==
  /\ last.op = "createTransaction"
  /\ audit = Audit("a1", 1, "booking_payment", "pending")
  /\ bookings[1].payment_status = "paid"
  /\ bookings[1].booking_status = "pending"
  /\ bookings[1].homeowner_confirm_time = NULL

(* The unbooked slots of the spot whose range overlaps the candidate's. *)
SlotConflicts(s, st, en) ==
  {i \in 1..Len(slots) :
     /\ slots[i].spot_id = s
     /\ slots[i].is_booked = FALSE
     /\ Overlap(slots[i].start_time, slots[i].end_time, st, en)}

(* C19. A declare request of the spot's homeowner with end > start is
   answered 409 exactly when an unbooked slot of the same spot overlaps the
   candidate (slot.start < end and start < slot.end); a 409 leaves the
   slots as they were, and without such a slot the request inserts its
   row. *)
C19_DeclareConflictIffOverlap ==
  [][last'.op = "createSpotAvailability" =>
     \A s \in SpotIds, st \in Times, en \in Times :
       (/\ st < en
        /\ SpotRows(spots, s) # {}
        /\ createSpotAvailability(spots[s].homeowner_id, s, st, en)) =>
          /\ (last'.code = 409) <=> (SlotConflicts(s, st, en) # {})
          /\ (last'.code = 409) => (slots' = slots)
          /\ (SlotConflicts(s, st, en) = {}) =>
               /\ last'.code = 201
               /\ Len(slots') = Len(slots) + 1
               /\ slots'[Len(slots')].spot_id = s
               /\ slots'[Len(slots')].start_time = st
               /\ slots'[Len(slots')].end_time = en
               /\ slots'[Len(slots')].is_booked = FALSE]_vars

(* A slot has just been declared over a range that a booked slot of the
   same spot overlaps. *)
C19_Witness ==
  /\ last = Response("createSpotAvailability", 201)
  /\ Len(slots) = 2
  /\ slots[1].spot_id = slots[2].spot_id
  /\ slots[1].is_booked = TRUE
  /\ slots[2].is_booked = FALSE
  /\ Overlap(slots[1].start_time, slots[1].end_time,
             slots[2].start_time, slots[2].end_time)

(* C20. With every request handled as one step, after any sequence of
   declare, update and remove requests no two unbooked slots of one spot
   have overlapping ranges. *)
C20_UnbookedSlotsDisjoint ==
  \A i \in 1..Len(slots), j \in 1..Len(slots) :
     (/\ i < j
      /\ slots[i].spot_id = slots[j].spot_id
      /\ slots[i].is_booked = FALSE
      /\ slots[j].is_booked = FALSE)
     => ~Overlap(slots[i].start_time, slots[i].end_time,
                 slots[j].start_time, slots[j].end_time)

(* C21. Whatever the interleaving of the round-trips of concurrent declare
   and bound-changing update requests, of two such requests on one spot
   whose ranges overlap at most one gets through: no two stored unbooked
   slots of one spot have overlapping ranges. *)
C21_NoOverlapUnderLedgerRace ==
  \A i \in 1..Len(slots), j \in 1..Len(slots) :
     (/\ i < j
      /\ slots[i].spot_id = slots[j].spot_id
      /\ ~slots[i].is_booked
      /\ ~slots[j].is_booked)
     => \/ slots[i].end_time <= slots[j].start_time
        \/ slots[j].end_time <= slots[i].start_time

(* C22. With every request handled as one step, a remove request for a slot
   whose is_booked is true is answered with an error and leaves the slots as
   they were; a remove request changes the slots only by deleting the one
   slot it names, and only when that slot is unbooked and the caller is the
   homeowner of its spot or an admin. *)
C22_BookedSlotStays ==
  [][last'.op = "deleteSpotAvailability" =>
     \A u \in Users, id \in 1..MaxSlots :
       deleteSpotAvailability(u, id) =>
          LET found == SpotAvailability_findById(slots, id)
              slot == slots[CHOOSE i \in found : TRUE]
          IN /\ (found # {} /\ slot.is_booked) =>
                  (last'.code >= 400 /\ slots' = slots)
             /\ last'.code # 200 => slots' = slots
             /\ slots' # slots =>
                  /\ found # {}
                  /\ slot.is_booked = FALSE
                  /\ spots[slot.spot_id].homeowner_id = u \/ u \in Admins
                  /\ slots' = SelectSeq(slots,
                                LAMBDA a : a.availability_id # id)]_vars

(* The remove request for the only slot, which is booked, has been answered
   400 and the slot is still stored. *)
C22_Witness ==
  /\ last = Response("deleteSpotAvailability", 400)
  /\ Len(slots) = 1
  /\ slots[1].is_booked = TRUE

(* C23. The answer of a query of a spot's slots is ordered by start_time
   ascending and holds no slot twice.  Without bounds it holds all the slots
   of the spot.  With bounds start < end it holds only slots of the spot
   that meet [start, end], and every slot of the spot that shares an instant
   with the bounds, the slots that begin before start or finish after end
   among them. *)
C23_QueryIntersecting ==
  last.op = "getSpotAvailability" =>
    LET rows == audit.from
        q == audit.arg
        ofSpot == {slots[i] : i \in {j \in 1..Len(slots) :
                                       slots[j].spot_id = audit.id}}
        got == {rows[k] : k \in 1..Len(rows)}
    IN /\ \A a \in 1..Len(rows), b \in 1..Len(rows) :
            a < b => rows[a].start_time <= rows[b].start_time
       /\ Cardinality(got) = Len(rows)
       /\ got \subseteq ofSpot
       /\ q.bounds = {} => got = ofSpot
       /\ (q.bounds = {"start", "end"} /\ q.start < q.end) =>
            /\ \A a \in got : a.start_time <= q.end /\ a.end_time >= q.start
            /\ \A a \in ofSpot :
                 Overlap(a.start_time, a.end_time, q.start, q.end) =>
                    a \in got

(* C24. Every stored review is by the driver of its booking, and the booking
   is completed; no booking has two reviews; and a createReview request of
   the booking's driver that is answered while a review of the booking is
   stored, after requests handled one after the other or at once, is
   answered 409 and stores nothing. *)
C24_OneReviewPerBooking ==
  [][/\ \A i \in 1..Len(reviews') :
          /\ reviews'[i].booking_id \in 1..Len(bookings')
          /\ reviews'[i].reviewer_id =
               bookings'[reviews'[i].booking_id].driver_id
          /\ bookings'[reviews'[i].booking_id].booking_status = "completed"
     /\ \A i \in 1..Len(reviews'), j \in 1..Len(reviews') :
          reviews'[i].booking_id = reviews'[j].booking_id => i = j
     /\ \A r \in 1..MaxInFlight :
          (/\ reqs[r].pc \notin {"idle", "done"}
           /\ reqs'[r].pc = "done"
           /\ reqs[r].booking_id \in BookingIds
           /\ reqs[r].user = bookings[reqs[r].booking_id].driver_id
           /\ Review_findByBookingId(reviews, reqs[r].booking_id) # {})
          => (reqs'[r].code = 409 /\ reviews' = reviews)]_vars

(* C25. A request that is answered 200 for changing a booking's status, or
   for recording a payment outcome of a booking, adds a notification about
   that booking for its driver or its homeowner. *)
C25_ChangeIsNotified ==
  [][(/\ last'.op \in {"updateBookingStatus", "processStripePayment",
                       "updatePaymentStatus"}
      /\ last'.code = 200)
     => \E id \in BookingIds :
          \E userId \in {bookings[id].driver_id, bookings[id].homeowner_id} :
            notifications' =
              Notification_create(notifications, userId, "booking", id)]_vars

(* C26. Every stored booking has end_time > start_time: a createBooking
   request with endTime <= startTime is answered with an error and inserts
   no row. *)
C26_EndAfterStart ==
  [][last'.op = "createBooking" =>
       /\ \A i \in 1..Len(bookings') :
            bookings'[i].end_time > bookings'[i].start_time
       /\ \A u \in Users, s \in SpotIds, st \in Times, en \in Times :
            (en <= st /\ createBooking(u, s, st, en, NULL)) =>
               (last'.code >= 400 /\ bookings' = bookings)]_vars

(* A driver's request with an empty or inverted range on an existing spot,
   which no stored booking blocks, has been refused by the table. *)
C26_Witness ==
  /\ last = Response("createBooking", 500)
  /\ Len(bookings) >= 1

(* The lifecycle timestamp a target status sets, or NULL for none. *)
OwnTimestamp(status) ==
  CASE status = "confirmed" -> "homeowner_confirm_time"
    [] status = "rejected" -> "homeowner_reject_time"
    [] status = "checked_in" -> "driver_check_in_time"
    [] status = "checked_out" -> "driver_check_out_time"
    [] OTHER -> NULL

LifecycleTimestamps ==
  {"driver_check_in_time", "driver_check_out_time", "homeowner_confirm_time",
   "homeowner_reject_time"}

(* C27. A successful updateBookingStatus request sets the booking to the
   target status and sets the target's own lifecycle timestamp, if it has
   one; the other lifecycle timestamps, payment_status, the gateway
   reference, the time range, spot_id, driver_id and homeowner_id of the
   booking, and all the other bookings, stay as they were. *)
C27_OnlyOwnTimestamp ==
  [][(last'.op = "updateBookingStatus" /\ last'.code = 200) =>
     LET id == audit'.id
         status == audit'.arg
     IN   /\ id \in BookingIds
          /\ Len(bookings') = Len(bookings)
          /\ \A j \in BookingIds : j # id => bookings'[j] = bookings[j]
          /\ bookings'[id].booking_status = status
          /\ \A f \in LifecycleTimestamps :
               bookings'[id][f] = IF f = OwnTimestamp(status) THEN NOW
                                  ELSE bookings[id][f]
          /\ \A f \in {"payment_status", "stripe_payment_intent_id",
                       "start_time", "end_time", "spot_id", "driver_id",
                       "homeowner_id"} :
               bookings'[id][f] = bookings[id][f]]_vars

(* The driver has just checked out of a booking that was confirmed and
   checked in: three timestamps are set and the reject time is not. *)
C27_Witness ==
  /\ last = Response("updateBookingStatus", 200)
  /\ audit = Audit("d1", 1, "checked_out", "checked_in")
  /\ bookings[1].homeowner_confirm_time = NOW
  /\ bookings[1].driver_check_in_time = NOW
  /\ bookings[1].driver_check_out_time = NOW
  /\ bookings[1].homeowner_reject_time = NULL

(* C28. Whatever the interleaving of the round-trips of concurrent
   updateBookingStatus requests on a booking, every write of a status is a
   transition the switch allows the caller from the status stored just
   before the write; a booking that is rejected or cancelled is never
   overwritten with confirmed, checked_in or checked_out. *)
C28_WritesAreTableEdges ==
  [][\A r \in 1..MaxInFlight :
       (reqs[r].pc = "write" /\ reqs'[r].pc = "done") =>
          LET stored == bookings[reqs[r].booking_id]
          IN /\ TransitionDecision(stored, reqs[r].user,
                                   user_type(reqs[r].user),
                                   reqs[r].status).code = 200
             /\ (stored.booking_status \in
                    {"rejected", "cancelled_by_driver",
                     "cancelled_by_homeowner"}) =>
                  bookings'[reqs[r].booking_id].booking_status \notin
                    {"confirmed", "checked_in", "checked_out"}]_vars

(* C29. A createBooking request and an updateBookingStatus request leave the
   availability slots as they were, whatever their answer; the is_booked
   flag of a stored slot changes only in an updateSpotAvailability
   request. *)
C29_BookingLeavesLedger ==
  [][/\ last'.op \in {"createBooking", "updateBookingStatus"} =>
          slots' = slots
     /\ (\E i \in 1..Len(slots), j \in 1..Len(slots') :
           /\ slots[i].availability_id = slots'[j].availability_id
           /\ slots[i].is_booked # slots'[j].is_booked)
        => last'.op = "updateSpotAvailability"]_vars

(* A booking has just been made inside an unbooked slot of its spot, and the
   slot is still unbooked. *)
C29_Witness ==
  /\ last = Response("createBooking", 201)
  /\ Len(bookings) = 1
  /\ Len(slots) = 1
  /\ slots[1].spot_id = bookings[1].spot_id
  /\ slots[1].start_time <= bookings[1].start_time
  /\ slots[1].end_time >= bookings[1].end_time
  /\ slots[1].is_booked = FALSE

(* C30. The payment_status and the gateway reference of a booking change
   only in a request of a caller tied to the booking: in updatePaymentStatus
   of the booking's homeowner or an admin, every other caller being
   answered 403 with the bookings as they were, and in processStripePayment
   of the driver who made the booking. *)
C30_PaymentByTiedCaller ==
  [][/\ (last'.op = "updatePaymentStatus" /\ audit'.id \in BookingIds) =>
          \/ audit'.user = bookings[audit'.id].homeowner_id
          \/ audit'.user \in Admins
          \/ (last'.code = 403 /\ bookings' = bookings)
     /\ last'.op = "processStripePayment" =>
          \A id \in BookingIds :
             (\/ bookings'[id].payment_status # bookings[id].payment_status
              \/ bookings'[id].stripe_payment_intent_id #
                   bookings[id].stripe_payment_intent_id)
             => audit'.user = bookings[id].driver_id]_vars

====
